---- MODULE Spec2Model ----
(***************************************************************************)
(* Voyage creation: the create form (validation schema, port pairing,      *)
(* unit-type multi-select, submission through a mutation), the page that   *)
(* hosts it, and the create endpoint with its store.                       *)
(***************************************************************************)
EXTENDS Integers, Sequences, FiniteSets, TLC

(* ----------------------------- bounds --------------------------------- *)

\* Submissions issued by one run of the form model.
MaxSubmits == 2

\* Requests sent straight to the endpoint by an arbitrary HTTP client.
MaxApiRequests == 2

\* Toasts shown on the page in the specification with the delete flow.
MaxToasts == 1

(* ------------------------------ data ----------------------------------- *)

Fields == {"departure", "arrival", "portOfLoading", "portOfDischarge",
           "vessel", "unitTypes"}

\* The items of the port-of-loading Dropdown.
PortItems == <<"Copenhagen", "Oslo">>

\* Values a caller can hand to handlePortOfLoadingChange.
PortValues == {"", "Copenhagen", "Oslo", "Aarhus"}

\* What the vessel query returns once it has loaded.
VesselOptions == <<[value |-> "v1", label |-> "Pearl Seaways"]>>

VesselValues == {"", "v1"}

\* What the unit-type query returns once it has loaded (after the map to
\* {value, label}).
UnitTypeOptions == <<[value |-> "u1", label |-> "Trailer"]>>

\* Unit types a caller can hand to handleSelect / handleUnselect.
UnitTypeUniverse == {[value |-> "u1", label |-> "Trailer"],
                     [value |-> "u2", label |-> "Container"],
                     [value |-> "u3", label |-> "Reefer"]}

\* Texts of the two datetime inputs.  "soon" is a non-empty text that is
\* no date; the third and fourth name the same instant.
DateTexts == {"", "soon", "2025-01-01T09:00", "2025-01-01T10:00",
              "2025-01-01T10:00:00", "2025-01-02T10:00"}

\* Texts typed into the form in the end-to-end specification.
DepartureTexts == {"", "2025-01-01T10:00"}
ArrivalTexts == {"", "2025-01-02T10:00"}

(* ------------------------------ dates ---------------------------------- *)

\* new Date(text): a local date-time text read in a zone one hour ahead of
\* UTC; time counts the hours since 2025-01-01T00:00Z.  Any other text is
\* an Invalid Date.
NewDate(s) ==
  CASE s = "2025-01-01T09:00"    -> [valid |-> TRUE, time |-> 8]
    [] s = "2025-01-01T10:00"    -> [valid |-> TRUE, time |-> 9]
    [] s = "2025-01-01T10:00:00" -> [valid |-> TRUE, time |-> 9]
    [] s = "2025-01-02T10:00"    -> [valid |-> TRUE, time |-> 33]
    [] OTHER                     -> [valid |-> FALSE, time |-> 0]

\* a > b on two Dates: the comparison of their time values, false as soon
\* as one of them is NaN.
DateGreaterUnlessLess(a, b) == ~(a.valid /\ b.valid /\ a.time <= b.time)
DateGreater(a, b) == a.valid /\ b.valid /\ a.time > b.time

Pad2(n) == IF n < 10 THEN "0" \o ToString(n) ELSE ToString(n)

\* Date.prototype.toISOString of a valid Date (it throws on an invalid one;
\* the callers test valid first).
ToISOStringSameDay(d) ==
  "2025-01-01T" \o Pad2(d.time % 24) \o ":00:00.000Z"
ToISOString(d) ==
  "2025-01-" \o Pad2((d.time \div 24) + 1) \o "T" \o Pad2(d.time % 24)
    \o ":00:00.000Z"

(* -------------------------- validation schema -------------------------- *)

Issue(path, message) == [path |-> path, message |-> message]

OrderMessage == "Arrival date must be after departure date"

RequiredMessage(f) ==
  CASE f = "departure"       -> "Departure is required"
    [] f = "arrival"         -> "Arrival is required"
    [] f = "portOfLoading"   -> "Port of loading is required"
    [] f = "portOfDischarge" -> "Port of discharge is required"
    [] f = "vessel"          -> "Vessel is required"
    [] f = "unitTypes"       -> "At least one unit type is required"

\* z.string().min(1, message) on field f.
StringMinNoCheck(data, f) == <<>>
StringMin(data, f) ==
  IF Len(data[f]) >= 1 THEN <<>> ELSE <<Issue(f, RequiredMessage(f))>>

\* z.array(z.string()).nonempty(message).
ArrayNonempty(data, f) ==
  IF Len(data[f]) >= 1 THEN <<>> ELSE <<Issue(f, RequiredMessage(f))>>

\* The refinement: it runs on the object whatever the field checks found
\* (a failed min or nonempty leaves the object dirty, not aborted), and its
\* issue carries the path ["arrival"].
RefineNotBefore(data) ==
  IF NewDate(data.arrival).valid /\ NewDate(data.departure).valid
       /\ NewDate(data.arrival).time < NewDate(data.departure).time
  THEN <<Issue("arrival", OrderMessage)>>
  ELSE <<>>
Refine(data) ==
  IF DateGreater(NewDate(data.arrival), NewDate(data.departure))
  THEN <<>>
  ELSE <<Issue("arrival", OrderMessage)>>

\* voyageSchema.safeParse(data).error.issues, in the order zod reports
\* them: the object's keys in declaration order, then the refinement.
\* The empty sequence is success.
VoyageSchema(data) ==
  StringMin(data, "departure") \o StringMin(data, "arrival")
    \o StringMin(data, "portOfLoading") \o StringMin(data, "portOfDischarge")
    \o StringMin(data, "vessel") \o ArrayNonempty(data, "unitTypes")
    \o Refine(data)

NoMessage == ""

RECURSIVE FirstMessage(_, _)
FirstMessage(issues, f) ==
  IF issues = <<>> THEN NoMessage
  ELSE IF Head(issues).path = f THEN Head(issues).message
  ELSE FirstMessage(Tail(issues), f)

\* The resolver's field errors: per field the message of its first issue,
\* which is what errors.<field>.message renders.
FieldErrors(issues) == [f \in Fields |-> FirstMessage(issues, f)]

NoErrors == [f \in Fields |-> NoMessage]

(* ------------------------------ state ---------------------------------- *)

VARIABLES
  isSheetOpen,        \* index.tsx: the creation sheet, which mounts the form
  toasts,             \* index.tsx: the toasts shown, oldest first
  invalidations,      \* index.tsx: how often the ["voyages"] query was invalidated
  vessels,            \* data of the ["vessels"] query, <<>> until it loads
  unitTypesData,      \* data of the ["unitTypes"] query, <<>> until it loads
  formValues,         \* the form library's values of the six fields
  issues,             \* the schema's issues in the last submit attempt
  errors,             \* formState.errors: field -> message, "" for none
  selectedVessel,     \* useState
  selectedUnitTypes,  \* useState: sequence of {value, label}
  portOfLoading,      \* useState
  portOfDischarge,    \* useState
  inputValue,         \* multiSelect.tsx: the filter text
  onSubmitCalls,      \* how often onSubmit ran
  requests,           \* every request sent, with its response and mutation
  voyages,            \* the rows of the voyage table, oldest first
  lastEvent           \* the handler that ran last, in the handler specifications

pageVars == <<isSheetOpen, toasts, invalidations>>
queryVars == <<vessels, unitTypesData>>
formVars == <<formValues, issues, errors, selectedVessel, selectedUnitTypes,
              portOfLoading, portOfDischarge, inputValue>>
netVars == <<onSubmitCalls, requests, voyages>>
vars == <<pageVars, queryVars, formVars, netVars, lastEvent>>

Draft(dep, arr, pol, pod, v, uts) ==
  [departure |-> dep, arrival |-> arr, portOfLoading |-> pol,
   portOfDischarge |-> pod, vessel |-> v, unitTypes |-> uts]

RECURSIVE Values(_)
\* selected.map((ut) => ut.value)
Values(sel) ==
  IF sel = <<>> THEN <<>> ELSE <<Head(sel).value>> \o Values(Tail(sel))

Contains(sel, v) == \E i \in 1..Len(sel) : sel[i].value = v

NoEvent == [op |-> "none", arg |-> "", prev |-> <<>>]

(* ------------------------------ widgets -------------------------------- *)

PortItemRecords == [i \in 1..Len(PortItems) |->
                      [value |-> PortItems[i], label |-> PortItems[i]]]

\* Dropdown's effect: an empty selection over a non-empty item list becomes
\* the first item.  The result is the item handed to setSelectedItem, or
\* the selection as it is when the effect does nothing.
DropdownEffectNone(items, selectedItem) == selectedItem
DropdownEffect(items, selectedItem) ==
  IF selectedItem = "" /\ Len(items) > 0 THEN items[1].value ELSE selectedItem

\* The port of discharge handlePortOfLoadingChange sets for selectedPort.
PairedDischargeDefault(selectedPort) ==
  IF selectedPort = "Oslo" THEN "Copenhagen" ELSE "Oslo"
PairedDischargeNoElse(selectedPort) ==
  IF selectedPort = "Copenhagen" THEN "Oslo" ELSE "Copenhagen"
PairedDischarge(selectedPort) ==
  IF selectedPort = "Copenhagen" THEN "Oslo"
  ELSE IF selectedPort = "Oslo" THEN "Copenhagen"
  ELSE ""

\* String.prototype.toLowerCase, on the letters the labels use.
LowerChar(c) ==
  CASE c = "T" -> "t" [] c = "C" -> "c" [] c = "R" -> "r" [] c = "E" -> "e"
    [] OTHER -> c

RECURSIVE ToLowerCase(_)
ToLowerCase(s) ==
  IF Len(s) = 0 THEN ""
  ELSE LowerChar(SubSeq(s, 1, 1)) \o ToLowerCase(SubSeq(s, 2, Len(s)))

\* String.prototype.includes
Includes(s, t) ==
  \E i \in 1..(Len(s) + 1) :
    i + Len(t) - 1 <= Len(s) /\ SubSeq(s, i, i + Len(t) - 1) = t

\* prev.filter((s) => s.value !== unitType.value)
RECURSIVE FilterOut(_, _)
FilterOut(prev, v) ==
  IF prev = <<>> THEN <<>>
  ELSE IF Head(prev).value = v THEN FilterOut(Tail(prev), v)
  ELSE <<Head(prev)>> \o FilterOut(Tail(prev), v)

\* handleUnselect's updater.
Unselect(prev, unitType) == FilterOut(prev, unitType.value)

\* handleSelect: the guard reads the rendered selection (selected), the
\* updater appends to the state it is given (prev).
SelectAlways(selected, prev, unitType) == Append(prev, unitType)
Select(selected, prev, unitType) ==
  IF ~Contains(selected, unitType.value) THEN Append(prev, unitType) ELSE prev

\* handleKeyDown's updater: a copy of prev without its last element.
PopFirst(prev) == IF prev = <<>> THEN <<>> ELSE Tail(prev)
Pop(prev) == IF prev = <<>> THEN <<>> ELSE SubSeq(prev, 1, Len(prev) - 1)

\* The options the multi-select renders.
FilteredUnitTypesCaseSensitive(unitTypes, selected, input) ==
  SelectSeq(unitTypes,
            LAMBDA ut : ~Contains(selected, ut.value) /\ Includes(ut.label, input))
FilteredUnitTypes(unitTypes, selected, input) ==
  SelectSeq(unitTypes,
            LAMBDA ut : ~Contains(selected, ut.value)
                         /\ Includes(ToLowerCase(ut.label), ToLowerCase(input)))

\* The two effects that copy the selection into the form values.
SyncVessel(fv, vessel) == [fv EXCEPT !.vessel = vessel]
SyncUnitTypesWhenAny(fv, selected) ==
  IF selected # <<>> THEN [fv EXCEPT !.unitTypes = Values(selected)] ELSE fv
SyncUnitTypes(fv, selected) == [fv EXCEPT !.unitTypes = Values(selected)]

(* ------------------------------ the form ------------------------------- *)

\* What the form holds while the sheet is closed: nothing is mounted.
Unmounted ==
  /\ formValues' = Draft("", "", "", "", "", <<>>)
  /\ issues' = <<>>
  /\ errors' = NoErrors
  /\ selectedVessel' = ""
  /\ selectedUnitTypes' = <<>>
  /\ portOfLoading' = ""
  /\ portOfDischarge' = ""
  /\ inputValue' = ""

\* handlePortOfLoadingChange: both states and both form values.
HandlePortOfLoadingChangeStateOnly(selectedPort) ==
  /\ portOfLoading' = selectedPort
  /\ portOfDischarge' = PairedDischarge(selectedPort)
  /\ formValues' = [formValues EXCEPT !.portOfLoading = selectedPort]
  /\ UNCHANGED <<issues, errors, selectedVessel, selectedUnitTypes, inputValue>>
HandlePortOfLoadingChange(selectedPort) ==
  /\ portOfLoading' = selectedPort
  /\ portOfDischarge' = PairedDischarge(selectedPort)
  /\ formValues' = [formValues EXCEPT
                      !.portOfLoading = selectedPort,
                      !.portOfDischarge = PairedDischarge(selectedPort)]
  /\ UNCHANGED <<issues, errors, selectedVessel, selectedUnitTypes, inputValue>>

\* setSelectedVessel(item), then the effect on selectedVessel.
SetSelectedVessel(item) ==
  /\ selectedVessel' = item
  /\ formValues' = SyncVessel(formValues, item)
  /\ UNCHANGED <<issues, errors, selectedUnitTypes, portOfLoading,
                 portOfDischarge, inputValue>>

\* handleSelect(unitType), then the effect on selectedUnitTypes.
HandleSelect(unitType) ==
  LET next == Select(selectedUnitTypes, selectedUnitTypes, unitType) IN
  /\ selectedUnitTypes' = next
  /\ inputValue' = IF Contains(selectedUnitTypes, unitType.value)
                   THEN inputValue ELSE ""
  /\ formValues' = SyncUnitTypes(formValues, next)
  /\ UNCHANGED <<issues, errors, selectedVessel, portOfLoading, portOfDischarge>>

\* handleSelect(first) and handleSelect(second) of one render: both guards
\* read that render's selection, the two updaters run in turn on the state;
\* then the effect on selectedUnitTypes.
HandleSelectTwice(first, second) ==
  LET rendered == selectedUnitTypes
      next == Select(rendered, Select(rendered, rendered, first), second) IN
  /\ selectedUnitTypes' = next
  /\ inputValue' = IF /\ Contains(rendered, first.value)
                      /\ Contains(rendered, second.value)
                   THEN inputValue ELSE ""
  /\ formValues' = SyncUnitTypes(formValues, next)
  /\ UNCHANGED <<issues, errors, selectedVessel, portOfLoading, portOfDischarge>>

\* handleUnselect(unitType), then the effect on selectedUnitTypes.
HandleUnselect(unitType) ==
  LET next == Unselect(selectedUnitTypes, unitType) IN
  /\ selectedUnitTypes' = next
  /\ formValues' = SyncUnitTypes(formValues, next)
  /\ UNCHANGED <<issues, errors, selectedVessel, portOfLoading,
                 portOfDischarge, inputValue>>

Keys == {"Backspace", "Delete", "Escape"}

\* handleKeyDown(e), then the effect on selectedUnitTypes.
HandleKeyDown(key) ==
  LET next == IF key \in {"Delete", "Backspace"} /\ inputValue = ""
              THEN Pop(selectedUnitTypes) ELSE selectedUnitTypes IN
  /\ selectedUnitTypes' = next
  /\ formValues' = SyncUnitTypes(formValues, next)
  /\ UNCHANGED <<issues, errors, selectedVessel, portOfLoading,
                 portOfDischarge, inputValue>>

FilterTexts == {"", "tr", "RE"}

\* onValueChange={setInputValue}
SetInputValue(text) ==
  /\ inputValue' = text
  /\ UNCHANGED <<formValues, issues, errors, selectedVessel,
                 selectedUnitTypes, portOfLoading, portOfDischarge>>

\* A registered input changes.
ChangeInputWhenIdle(f, text) ==
  /\ \A i \in 1..Len(requests) : requests[i].mutation # "pending"
  /\ formValues' = [formValues EXCEPT ![f] = text]
  /\ UNCHANGED <<issues, errors, selectedVessel, selectedUnitTypes,
                 portOfLoading, portOfDischarge, inputValue>>
ChangeInput(f, text) ==
  /\ formValues' = [formValues EXCEPT ![f] = text]
  /\ UNCHANGED <<issues, errors, selectedVessel, selectedUnitTypes,
                 portOfLoading, portOfDischarge, inputValue>>

(* --------------------------- the submission ---------------------------- *)

\* A request on the wire, the response the endpoint gave it, and the state
\* of the mutation that sent it ("none": it was not sent by the form):
\* json tells how reading the response body went, logged whether onError
\* wrote to the console, successCalls how often onSuccess ran, serverLog
\* what the endpoint wrote to its console.
NewRequest(method, body, mutation) ==
  [method |-> method, body |-> body, st |-> "sent", status |-> 0,
   allow |-> <<>>, error |-> "", text |-> "", created |-> <<>>,
   serverLog |-> "",
   mutation |-> mutation, json |-> "unread", logged |-> FALSE,
   successCalls |-> 0]

\* onSubmit's rewrite of the validated data.
SubmittedDataStale(data, vessel, selected) ==
  [data EXCEPT !.departure = ToISOString(NewDate(@)),
               !.arrival = ToISOString(NewDate(@))]
SubmittedDataRaw(data, vessel, selected) ==
  [data EXCEPT !.vessel = vessel, !.unitTypes = Values(selected)]
SubmittedData(data, vessel, selected) ==
  [data EXCEPT !.departure = ToISOString(NewDate(@)),
               !.arrival = ToISOString(NewDate(@)),
               !.vessel = vessel,
               !.unitTypes = Values(selected)]

\* createVoyageMutation.mutate(data): mutationFn's one fetch.
MutateWhenIdle(reqs, data) ==
  IF \E i \in 1..Len(reqs) : reqs[i].mutation = "pending"
  THEN reqs
  ELSE Append(reqs, NewRequest("POST", data, "pending"))
MutateTwice(reqs, data) ==
  Append(Append(reqs, NewRequest("POST", data, "pending")),
         NewRequest("POST", data, "pending"))
Mutate(reqs, data) == Append(reqs, NewRequest("POST", data, "pending"))

\* onSubmit(data).  toISOString throws a RangeError on an Invalid Date, and
\* then nothing is sent.
OnSubmit(data) ==
  /\ onSubmitCalls' = onSubmitCalls + 1
  /\ IF NewDate(data.departure).valid /\ NewDate(data.arrival).valid
     THEN requests' =
            Mutate(requests, SubmittedData(data, selectedVessel, selectedUnitTypes))
     ELSE UNCHANGED requests
  /\ UNCHANGED voyages

\* What handleSubmit does with the resolver's issues.
SubmitPassesAlways(found) == TRUE
SubmitPasses(found) == found = <<>>

\* handleSubmit(onSubmit): the resolver runs the schema on the form values;
\* onSubmit runs only without issues, otherwise the errors are set.
HandleSubmit ==
  LET found == VoyageSchema(formValues) IN
  /\ isSheetOpen
  /\ issues' = found
  /\ errors' = FieldErrors(found)
  /\ IF SubmitPasses(found)
     THEN onSubmitCalls < MaxSubmits /\ OnSubmit(formValues)
     ELSE UNCHANGED netVars
  /\ UNCHANGED <<formValues, selectedVessel, selectedUnitTypes, portOfLoading,
                 portOfDischarge, inputValue>>

(* ----------------------------- the endpoint ---------------------------- *)

\* req.method === "POST"
AcceptsPut(method) == method \in {"POST", "PUT"}
Accepts(method) == method = "POST"

\* The row prisma.voyage.create writes for a body.
VoyageRowChecked(rows, body) ==
  [id |-> Len(rows) + 1,
   scheduledDeparture |-> body.departure,
   scheduledArrival |-> IF body.arrival = "2025-01-01T09:00:00.000Z"
                        THEN "2025-01-03T09:00:00.000Z" ELSE body.arrival,
   portOfLoading |-> IF body.portOfLoading = "" THEN "Copenhagen"
                     ELSE body.portOfLoading,
   portOfDischarge |-> body.portOfDischarge,
   vesselId |-> body.vessel,
   unitTypes |-> body.unitTypes]
VoyageRow(rows, body) ==
  [id |-> Len(rows) + 1,
   scheduledDeparture |-> body.departure,
   scheduledArrival |-> body.arrival,
   portOfLoading |-> body.portOfLoading,
   portOfDischarge |-> body.portOfDischarge,
   vesselId |-> body.vessel,
   unitTypes |-> body.unitTypes]

Respond(req, status, allow, error, text, created) ==
  [req EXCEPT !.st = "responded", !.status = status, !.allow = allow,
              !.error = error, !.text = text, !.created = created]

\* What prisma.voyage.create can come to: the row, or a rejection with its
\* cause.
Created == "created"
PrismaResults == {Created, "P2025 record to connect not found"}

\* The body of the 500 response.
ErrorBodyEcho(cause) == cause
ErrorBody(cause) == "Internal server error"

\* handler(req, res) on request i; result is what prisma.voyage.create
\* comes to.
Handler(i, result) ==
  LET req == requests[i]
      row == VoyageRow(voyages, req.body) IN
  /\ req.st = "sent"
  /\ IF Accepts(req.method)
     THEN IF result = Created
          THEN /\ voyages' = Append(voyages, row)
               /\ requests' = [requests EXCEPT
                     ![i] = Respond(@, 201, <<>>, "", "", <<row>>)]
          ELSE /\ UNCHANGED voyages
               /\ requests' = [requests EXCEPT
                     ![i] = [Respond(@, 500, <<>>, ErrorBody(result), "", <<>>)
                               EXCEPT !.serverLog = result]]
     ELSE /\ UNCHANGED voyages
          /\ requests' = [requests EXCEPT
                ![i] = Respond(@, 405, <<"POST">>, "",
                               "Method " \o req.method \o " not allowed", <<>>)]
  /\ UNCHANGED onSubmitCalls

(* ------------------------- the mutation's outcome ---------------------- *)

\* response.ok
ResponseOk(status) == status >= 200 /\ status <= 299

\* mutationFn's result: it throws on a response that is not ok and on a
\* body that does not parse.
MutationOutcomeByStatus(status, parses) ==
  IF ResponseOk(status) THEN "success" ELSE "error"
MutationOutcomeAnyStatus(status, parses) ==
  IF parses THEN "success" ELSE "error"
MutationOutcome(status, parses) ==
  IF ~ResponseOk(status) THEN "error"
  ELSE IF parses THEN "success" ELSE "error"

\* handleCreateSuccess: the toast, the sheet closes (which unmounts the
\* form), the voyages query is invalidated.
HandleCreateSuccessKeepOpen ==
  /\ toasts' = Append(toasts, "Voyage created successfully!")
  /\ invalidations' = invalidations + 1
  /\ UNCHANGED <<isSheetOpen, formVars>>
HandleCreateSuccess ==
  /\ toasts' = Append(toasts, "Voyage created successfully!")
  /\ isSheetOpen' = FALSE
  /\ Unmounted
  /\ invalidations' = invalidations + 1

\* createVoyageMutation's onError: console.error and nothing else.
OnErrorInvalidating ==
  /\ invalidations' = invalidations + 1
  /\ UNCHANGED <<isSheetOpen, toasts, formVars>>
OnError ==
  UNCHANGED <<pageVars, formVars>>

\* The response of request i reaches its mutation; parses tells whether
\* the body reads as JSON.
SettleRetrying(i, parses) ==
  LET req == requests[i]
      outcome == MutationOutcome(req.status, parses) IN
  /\ req.st = "responded"
  /\ req.mutation = "pending"
  /\ IF outcome = "success"
     THEN /\ requests' = [requests EXCEPT ![i].mutation = "success",
                                          ![i].json = "parsed",
                                          ![i].successCalls = @ + 1]
          /\ HandleCreateSuccess
     ELSE /\ requests' = Append([requests EXCEPT
                                   ![i].mutation = "error",
                                   ![i].json = IF ResponseOk(req.status)
                                               THEN "failed" ELSE @,
                                   ![i].logged = TRUE],
                                NewRequest("POST", req.body, "pending"))
          /\ OnError
  /\ UNCHANGED <<onSubmitCalls, voyages>>
Settle(i, parses) ==
  LET req == requests[i]
      outcome == MutationOutcome(req.status, parses) IN
  /\ req.st = "responded"
  /\ req.mutation = "pending"
  /\ IF outcome = "success"
     THEN /\ requests' = [requests EXCEPT ![i].mutation = "success",
                                          ![i].json = "parsed",
                                          ![i].successCalls = @ + 1]
          /\ HandleCreateSuccess
     ELSE /\ requests' = [requests EXCEPT
                 ![i].mutation = "error",
                 ![i].json = IF ResponseOk(req.status) THEN "failed" ELSE @,
                 ![i].logged = TRUE]
          /\ OnError
  /\ UNCHANGED <<onSubmitCalls, voyages>>

(* ---------------------- the end-to-end specification ------------------- *)

Init ==
  /\ isSheetOpen = FALSE
  /\ toasts = <<>>
  /\ invalidations = 0
  /\ vessels = <<>>
  /\ unitTypesData = <<>>
  /\ formValues = Draft("", "", "", "", "", <<>>)
  /\ issues = <<>>
  /\ errors = NoErrors
  /\ selectedVessel = ""
  /\ selectedUnitTypes = <<>>
  /\ portOfLoading = ""
  /\ portOfDischarge = ""
  /\ inputValue = ""
  /\ onSubmitCalls = 0
  /\ requests = <<>>
  /\ voyages = <<>>
  /\ lastEvent = NoEvent

\* The Create button opens the sheet: the form mounts with its initial
\* states and its mount effects run (both Dropdowns, then the two copies
\* into the form values).
OpenSheet ==
  LET port == DropdownEffect(PortItemRecords, "")
      vessel == DropdownEffect(vessels, "") IN
  /\ ~isSheetOpen
  /\ isSheetOpen' = TRUE
  /\ portOfLoading' = port
  /\ portOfDischarge' = PairedDischarge(port)
  /\ selectedVessel' = vessel
  /\ selectedUnitTypes' = <<>>
  /\ inputValue' = ""
  /\ formValues' = SyncUnitTypes(
                      SyncVessel(Draft("", "", port, PairedDischarge(port), "", <<>>),
                                 vessel), <<>>)
  /\ issues' = <<>>
  /\ errors' = NoErrors
  /\ UNCHANGED <<toasts, invalidations, queryVars, netVars, lastEvent>>

\* Cancel, or the sheet's own close: the form unmounts.
CloseSheet ==
  /\ isSheetOpen
  /\ isSheetOpen' = FALSE
  /\ Unmounted
  /\ UNCHANGED <<toasts, invalidations, queryVars, netVars, lastEvent>>

\* The vessels query loads; the vessel Dropdown's effect then selects.
VesselsLoaded ==
  /\ isSheetOpen
  /\ vessels = <<>>
  /\ vessels' = VesselOptions
  /\ SetSelectedVessel(DropdownEffect(VesselOptions, selectedVessel))
  /\ UNCHANGED <<pageVars, unitTypesData, netVars, lastEvent>>

UnitTypesLoaded ==
  /\ isSheetOpen
  /\ unitTypesData = <<>>
  /\ unitTypesData' = UnitTypeOptions
  /\ UNCHANGED <<pageVars, vessels, formVars, netVars, lastEvent>>

TypeDeparture ==
  /\ isSheetOpen
  /\ \E text \in DepartureTexts : ChangeInput("departure", text)
  /\ UNCHANGED <<pageVars, queryVars, netVars, lastEvent>>

TypeArrival ==
  /\ isSheetOpen
  /\ \E text \in ArrivalTexts : ChangeInput("arrival", text)
  /\ UNCHANGED <<pageVars, queryVars, netVars, lastEvent>>

ChoosePort ==
  /\ isSheetOpen
  /\ \E i \in 1..Len(PortItemRecords) :
       HandlePortOfLoadingChange(PortItemRecords[i].value)
  /\ UNCHANGED <<pageVars, queryVars, netVars, lastEvent>>

ChooseVessel ==
  /\ isSheetOpen
  /\ \E i \in 1..Len(vessels) : SetSelectedVessel(vessels[i].value)
  /\ UNCHANGED <<pageVars, queryVars, netVars, lastEvent>>

\* A mouse-down on one of the rendered options.
PickUnitType ==
  /\ isSheetOpen
  /\ LET options == FilteredUnitTypes(unitTypesData, selectedUnitTypes, inputValue) IN
     \E i \in 1..Len(options) : HandleSelect(options[i])
  /\ UNCHANGED <<pageVars, queryVars, netVars, lastEvent>>

\* A mouse-down on one of the rendered badges.
ClickBadge ==
  /\ isSheetOpen
  /\ \E i \in 1..Len(selectedUnitTypes) : HandleUnselect(selectedUnitTypes[i])
  /\ UNCHANGED <<pageVars, queryVars, netVars, lastEvent>>

PressKey ==
  /\ isSheetOpen
  /\ \E key \in Keys : HandleKeyDown(key)
  /\ UNCHANGED <<pageVars, queryVars, netVars, lastEvent>>

Submit ==
  /\ HandleSubmit
  /\ UNCHANGED <<pageVars, queryVars, lastEvent>>

Serve ==
  /\ \E i \in 1..Len(requests), result \in PrismaResults : Handler(i, result)
  /\ UNCHANGED <<pageVars, queryVars, formVars, lastEvent>>

Receive ==
  /\ \E i \in 1..Len(requests), parses \in BOOLEAN : Settle(i, parses)
  /\ UNCHANGED <<queryVars, lastEvent>>

Next ==
  \/ OpenSheet
  \/ CloseSheet
  \/ VesselsLoaded
  \/ UnitTypesLoaded
  \/ TypeDeparture
  \/ TypeArrival
  \/ ChoosePort
  \/ ChooseVessel
  \/ PickUnitType
  \/ ClickBadge
  \/ PressKey
  \/ Submit
  \/ Serve
  \/ Receive

Spec == Init /\ [][Next]_vars

(* ------------------- the schema on arbitrary drafts -------------------- *)

UnitTypeOf(id) == CHOOSE ut \in UnitTypeUniverse : ut.value = id

UnitTypesOf(ids) == [i \in 1..Len(ids) |-> UnitTypeOf(ids[i])]

\* Every draft over the texts, ports, vessels and unit-type lists below,
\* each field chosen on its own.
DraftPortsOfLoading == {"", "Copenhagen", "Aarhus"}
DraftPortsOfDischarge == {"", "Oslo"}
DraftUnitTypes == {<<>>, <<"u1">>, <<"u2", "u1">>}

Drafts ==
  {Draft(dep, arr, pol, pod, v, uts) :
     dep \in DateTexts, arr \in DateTexts, pol \in DraftPortsOfLoading,
     pod \in DraftPortsOfDischarge, v \in VesselValues, uts \in DraftUnitTypes}

Event(op, arg) == [op |-> op, arg |-> arg, prev |-> selectedUnitTypes]

\* A mounted form holding an arbitrary draft, its selection states equal to
\* the draft's.
InitSchema ==
  /\ isSheetOpen = TRUE
  /\ toasts = <<>>
  /\ invalidations = 0
  /\ vessels = VesselOptions
  /\ unitTypesData = UnitTypeOptions
  /\ formValues \in Drafts
  /\ issues = <<>>
  /\ errors = NoErrors
  /\ selectedVessel = formValues.vessel
  /\ selectedUnitTypes = UnitTypesOf(formValues.unitTypes)
  /\ portOfLoading = formValues.portOfLoading
  /\ portOfDischarge = formValues.portOfDischarge
  /\ inputValue = ""
  /\ onSubmitCalls = 0
  /\ requests = <<>>
  /\ voyages = <<>>
  /\ lastEvent = NoEvent

SubmitDraft ==
  /\ HandleSubmit
  /\ lastEvent' = Event("submit", "")
  /\ UNCHANGED <<pageVars, queryVars>>

NextSchema ==
  \/ SubmitDraft
  \/ Serve

SpecSchema == InitSchema /\ [][NextSchema]_vars

(* ------------------ the handlers on arbitrary arguments ---------------- *)

AllUnitTypes == <<[value |-> "u1", label |-> "Trailer"],
                  [value |-> "u2", label |-> "Container"],
                  [value |-> "u3", label |-> "Reefer"]>>

\* The duplicate-free selections over the unit types.
Selections ==
  {sel \in UNION {[1..n -> UnitTypeUniverse] : n \in 0..Cardinality(UnitTypeUniverse)} :
     \A i, j \in 1..Len(sel) : i # j => sel[i].value # sel[j].value}

\* A mounted form with an arbitrary selection and either port.
InitWidgets ==
  /\ isSheetOpen = TRUE
  /\ toasts = <<>>
  /\ invalidations = 0
  /\ vessels = VesselOptions
  /\ unitTypesData = AllUnitTypes
  /\ selectedVessel = "v1"
  /\ selectedUnitTypes \in Selections
  /\ portOfLoading \in {"Copenhagen", "Oslo"}
  /\ portOfDischarge = PairedDischarge(portOfLoading)
  /\ formValues = Draft("", "", portOfLoading, portOfDischarge, selectedVessel,
                        Values(selectedUnitTypes))
  /\ issues = <<>>
  /\ errors = NoErrors
  /\ inputValue \in FilterTexts
  /\ onSubmitCalls = 0
  /\ requests = <<>>
  /\ voyages = <<>>
  /\ lastEvent = NoEvent

CallPortOfLoadingChange ==
  \E p \in PortValues :
    /\ HandlePortOfLoadingChange(p)
    /\ lastEvent' = Event("port", p)
    /\ UNCHANGED <<pageVars, queryVars, netVars>>

CallSelect ==
  \E ut \in UnitTypeUniverse :
    /\ HandleSelect(ut)
    /\ lastEvent' = Event("select", ut.value)
    /\ UNCHANGED <<pageVars, queryVars, netVars>>

CallUnselect ==
  \E ut \in UnitTypeUniverse :
    /\ HandleUnselect(ut)
    /\ lastEvent' = Event("unselect", ut.value)
    /\ UNCHANGED <<pageVars, queryVars, netVars>>

CallKeyDown ==
  \E key \in Keys :
    /\ HandleKeyDown(key)
    /\ lastEvent' = Event("key", key)
    /\ UNCHANGED <<pageVars, queryVars, netVars>>

CallSetInputValue ==
  \E text \in FilterTexts :
    /\ SetInputValue(text)
    /\ lastEvent' = Event("input", text)
    /\ UNCHANGED <<pageVars, queryVars, netVars>>

NextWidgets ==
  \/ CallPortOfLoadingChange
  \/ CallSelect
  \/ CallUnselect
  \/ CallKeyDown
  \/ CallSetInputValue

SpecWidgets == InitWidgets /\ [][NextWidgets]_vars

(* ------------------- the page with its delete flow --------------------- *)

RemoveAt(rows, k) == SubSeq(rows, 1, k - 1) \o SubSeq(rows, k + 1, Len(rows))

\* handleDelete of the k-th stored voyage, to the end of its mutation: ok
\* tells whether the DELETE was answered with a success status.  onSuccess
\* invalidates the voyages query, onError shows a toast.
HandleDelete(k, ok) ==
  /\ IF ok
     THEN /\ voyages' = RemoveAt(voyages, k)
          /\ invalidations' = invalidations + 1
          /\ UNCHANGED toasts
     ELSE /\ Len(toasts) < MaxToasts
          /\ toasts' = Append(toasts, "Failed to delete voyage")
          /\ UNCHANGED <<voyages, invalidations>>
  /\ UNCHANGED <<isSheetOpen, queryVars, formVars, onSubmitCalls, requests,
                 lastEvent>>

DeleteVoyage ==
  \E k \in 1..Len(voyages), ok \in BOOLEAN : HandleDelete(k, ok)

NextPage ==
  \/ OpenSheet
  \/ VesselsLoaded
  \/ UnitTypesLoaded
  \/ TypeDeparture
  \/ TypeArrival
  \/ PickUnitType
  \/ Submit
  \/ Serve
  \/ Receive
  \/ DeleteVoyage

SpecPage == Init /\ [][NextPage]_vars

(* ------------- the port handler followed by a submission --------------- *)

\* A mounted form with either port pair and any dates, vessel and unit
\* types.
InitPorts ==
  /\ isSheetOpen = TRUE
  /\ toasts = <<>>
  /\ invalidations = 0
  /\ vessels = VesselOptions
  /\ unitTypesData = UnitTypeOptions
  /\ portOfLoading \in {"Copenhagen", "Oslo"}
  /\ portOfDischarge = PairedDischarge(portOfLoading)
  /\ selectedVessel \in VesselValues
  /\ selectedUnitTypes \in {UnitTypesOf(ids) : ids \in DraftUnitTypes}
  /\ \E dep \in DateTexts, arr \in DateTexts :
       formValues = Draft(dep, arr, portOfLoading, portOfDischarge,
                          selectedVessel, Values(selectedUnitTypes))
  /\ issues = <<>>
  /\ errors = NoErrors
  /\ inputValue = ""
  /\ onSubmitCalls = 0
  /\ requests = <<>>
  /\ voyages = <<>>
  /\ lastEvent = NoEvent

NextPorts ==
  \/ CallPortOfLoadingChange
  \/ SubmitDraft

SpecPorts == InitPorts /\ [][NextPorts]_vars

(* ------------- the multi-select with two events per render ------------ *)

CallSelectTwice ==
  \E first \in UnitTypeUniverse, second \in UnitTypeUniverse :
    /\ HandleSelectTwice(first, second)
    /\ lastEvent' = Event("selectTwice", first.value)
    /\ UNCHANGED <<pageVars, queryVars, netVars>>

NextSnapshot ==
  \/ CallSelectTwice
  \/ CallSelect
  \/ CallUnselect
  \/ CallKeyDown

SpecSnapshot == InitWidgets /\ [][NextSnapshot]_vars

(* --------------------- onSubmit on arbitrary data ---------------------- *)

\* Data the schema accepts, with a vessel and unit types of their own.
OnSubmitData ==
  {Draft("2025-01-01T10:00", "2025-01-02T10:00", "Copenhagen", "Oslo", v, uts) :
     v \in {"v1", "v2"}, uts \in {<<"u1">>, <<"u2", "u1">>}}

\* A mounted form whose form values and selections are chosen apart.
InitOnSubmit ==
  /\ isSheetOpen = TRUE
  /\ toasts = <<>>
  /\ invalidations = 0
  /\ vessels = VesselOptions
  /\ unitTypesData = AllUnitTypes
  /\ selectedVessel \in VesselValues
  /\ selectedUnitTypes \in Selections
  /\ portOfLoading = "Copenhagen"
  /\ portOfDischarge = "Oslo"
  /\ formValues \in OnSubmitData
  /\ issues = <<>>
  /\ errors = NoErrors
  /\ inputValue = ""
  /\ onSubmitCalls = 0
  /\ requests = <<>>
  /\ voyages = <<>>
  /\ lastEvent = NoEvent

CallOnSubmit ==
  /\ onSubmitCalls < MaxSubmits
  /\ OnSubmit(formValues)
  /\ lastEvent' = Event("onSubmit", "")
  /\ UNCHANGED <<pageVars, queryVars, formVars>>

NextOnSubmit ==
  \/ CallOnSubmit
  \/ CallSelect

SpecOnSubmit == InitOnSubmit /\ [][NextOnSubmit]_vars

(* ------------------ the endpoint on arbitrary requests ----------------- *)

Methods == {"GET", "POST", "PUT", "DELETE"}

\* A body as the form sends it, and two no schema has seen.
ApiBodies ==
  {Draft("2025-01-01T09:00:00.000Z", "2025-01-02T09:00:00.000Z",
         "Copenhagen", "Oslo", "v1", <<"u1">>),
   Draft("2025-01-02T09:00:00.000Z", "2025-01-01T09:00:00.000Z",
         "Copenhagen", "Oslo", "v1", <<"u1">>),
   Draft("2025-01-02T09:00:00.000Z", "2025-01-01T09:00:00.000Z",
         "", "", "", <<>>)}

ApiSend ==
  /\ Len(requests) < MaxApiRequests
  /\ \E method \in Methods, body \in ApiBodies :
       requests' = Append(requests, NewRequest(method, body, "none"))
  /\ UNCHANGED <<pageVars, queryVars, formVars, onSubmitCalls, voyages, lastEvent>>

NextApi ==
  \/ ApiSend
  \/ Serve

SpecApi == Init /\ [][NextApi]_vars

(* ------------------------------- claims -------------------------------- *)

HasIssue(path, message) ==
  \E i \in 1..Len(issues) : issues[i] = [path |-> path, message |-> message]

\* C1: after a submit attempt on a draft whose arrival is not strictly later
\* than its departure (equal, earlier, or one of the two no date at all),
\* validation has failed: the schema's issues hold "Arrival date must be
\* after departure date" on the path arrival and onSubmit did not run,
\* whatever the other fields hold.
C1_ArrivalOrderRejected ==
  LET a == NewDate(formValues.arrival)
      d == NewDate(formValues.departure) IN
  (lastEvent.op = "submit" /\ (~a.valid \/ ~d.valid \/ a.time <= d.time))
    => /\ HasIssue("arrival", "Arrival date must be after departure date")
       /\ onSubmitCalls = 0
       /\ requests = <<>>

\* C1's case: two texts of the same instant, every other field valid, and
\* the ordering issue is the only one.
C1_Witness ==
  /\ lastEvent.op = "submit"
  /\ formValues.departure = "2025-01-01T10:00"
  /\ formValues.arrival = "2025-01-01T10:00:00"
  /\ formValues.portOfLoading = "Copenhagen"
  /\ formValues.portOfDischarge = "Oslo"
  /\ formValues.vessel = "v1"
  /\ formValues.unitTypes = <<"u1">>
  /\ issues = <<[path |-> "arrival",
                 message |-> "Arrival date must be after departure date"]>>
  /\ errors.arrival = "Arrival date must be after departure date"

\* C2: after a submit attempt, every field of the draft that is empty
\* shows its own required message, each of them when several are empty at
\* once, and with any field empty onSubmit did not run.
C2_RequiredMessages ==
  lastEvent.op = "submit" =>
    /\ formValues.departure = "" => errors.departure = "Departure is required"
    /\ formValues.arrival = "" => errors.arrival = "Arrival is required"
    /\ formValues.portOfLoading = ""
         => errors.portOfLoading = "Port of loading is required"
    /\ formValues.portOfDischarge = ""
         => errors.portOfDischarge = "Port of discharge is required"
    /\ formValues.vessel = "" => errors.vessel = "Vessel is required"
    /\ formValues.unitTypes = <<>>
         => errors.unitTypes = "At least one unit type is required"
    /\ (\E f \in Fields : Len(formValues[f]) = 0)
         => onSubmitCalls = 0 /\ requests = <<>>

\* C2's case: four fields empty at once, each with its message, the two
\* filled fields without one.
C2_Witness ==
  /\ lastEvent.op = "submit"
  /\ formValues = Draft("", "", "Copenhagen", "Oslo", "", <<>>)
  /\ errors = [departure |-> "Departure is required",
               arrival |-> "Arrival is required",
               portOfLoading |-> "",
               portOfDischarge |-> "",
               vessel |-> "Vessel is required",
               unitTypes |-> "At least one unit type is required"]

\* C7: handlePortOfLoadingChange called with any value leaves the port of
\* discharge, in the state and in the form values, at "Oslo" for
\* "Copenhagen", at "Copenhagen" for "Oslo" and unset for every other value,
\* the empty one included, whatever the form held before the call.
C7_PortPairing ==
  lastEvent.op = "port" =>
    /\ portOfLoading = lastEvent.arg
    /\ portOfDischarge =
         (CASE lastEvent.arg = "Copenhagen" -> "Oslo"
            [] lastEvent.arg = "Oslo" -> "Copenhagen"
            [] OTHER -> "")
    /\ formValues.portOfDischarge = portOfDischarge

\* C7's case: a value outside the two ports, chosen on a form that holds a
\* selection, clears the port of discharge.
C7_Witness ==
  /\ lastEvent.op = "port"
  /\ lastEvent.arg = "Aarhus"
  /\ Len(selectedUnitTypes) = 2
  /\ portOfLoading = "Aarhus"
  /\ portOfDischarge = ""
  /\ formValues.portOfDischarge = ""

HasValue(sel, v) == \E i \in 1..Len(sel) : sel[i].value = v

\* C9: handleSelect of a unit type that is selected leaves the selection as
\* it was, of a new one appends it after the others; handleUnselect leaves
\* the selection without that identifier and the rest in their order, and
\* leaves it as it was when the identifier is not in it.
C9_SelectUnselect ==
  LET prev == lastEvent.prev
      now == selectedUnitTypes IN
  /\ lastEvent.op = "select" =>
       IF HasValue(prev, lastEvent.arg)
       THEN now = prev
       ELSE /\ Len(now) = Len(prev) + 1
            /\ SubSeq(now, 1, Len(prev)) = prev
            /\ now[Len(now)].value = lastEvent.arg
  /\ lastEvent.op = "unselect" =>
       /\ ~HasValue(now, lastEvent.arg)
       /\ IF HasValue(prev, lastEvent.arg)
          THEN \E k \in 1..Len(prev) :
                 /\ prev[k].value = lastEvent.arg
                 /\ now = SubSeq(prev, 1, k - 1) \o SubSeq(prev, k + 1, Len(prev))
          ELSE now = prev
  /\ lastEvent.op \in {"select", "unselect"} =>
       formValues.unitTypes = [i \in 1..Len(now) |-> now[i].value]

\* C9's case: handleSelect of the second of two selected unit types.
C9_Witness ==
  /\ lastEvent.op = "select"
  /\ lastEvent.arg = "u2"
  /\ Len(lastEvent.prev) = 2
  /\ lastEvent.prev[1].value = "u1"
  /\ lastEvent.prev[2].value = "u2"
  /\ selectedUnitTypes = lastEvent.prev

RespondedTo(method) ==
  {i \in 1..Len(requests) :
     requests[i].st = "responded" /\ requests[i].method = method}

\* C10: every answered request whose method is not POST got 405 with the
\* Allow header POST and created nothing, and the table holds exactly one
\* row per POST answered 201.
C10_NonPostRejected ==
  /\ \A i \in 1..Len(requests) :
       (requests[i].st = "responded" /\ requests[i].method # "POST")
         => /\ requests[i].status = 405
            /\ requests[i].allow = <<"POST">>
            /\ requests[i].created = <<>>
  /\ Len(voyages) =
       Cardinality({i \in RespondedTo("POST") : requests[i].status = 201})

\* C10's case: a PUT answered 405 after a POST was stored.
C10_Witness ==
  /\ Len(requests) = 2
  /\ requests[1].method = "POST" /\ requests[1].status = 201
  /\ requests[2].method = "PUT" /\ requests[2].status = 405
  /\ requests[2].allow = <<"POST">>
  /\ requests[2].text = "Method PUT not allowed"
  /\ Len(voyages) = 1

\* C3: a step that issues a request is a submit whose validation of the form
\* values found nothing, and it issues one request; a submit whose validation
\* finds something attaches the errors, issues no request, does not call
\* onSubmit, and leaves the form mounted with its values.
C3_PostOnlyWhenValid ==
  [][/\ Len(requests') > Len(requests)
          => /\ VoyageSchema(formValues) = <<>>
             /\ issues' = <<>>
             /\ errors' = NoErrors
             /\ Len(requests') = Len(requests) + 1
             /\ requests'[Len(requests')].method = "POST"
     /\ onSubmitCalls' # onSubmitCalls => VoyageSchema(formValues) = <<>>
     /\ (issues' # <<>> /\ issues' # issues)
          => /\ issues' = VoyageSchema(formValues)
             /\ errors' = FieldErrors(issues')
             /\ errors' # NoErrors
             /\ requests' = requests
             /\ onSubmitCalls' = onSubmitCalls
             /\ isSheetOpen /\ isSheetOpen'
             /\ UNCHANGED <<formValues, selectedVessel, selectedUnitTypes,
                            portOfLoading, portOfDischarge, inputValue>>
    ]_vars

\* C3's case: after a submit that posted, a submit of a draft without a
\* departure left its error on the open form and posted nothing more.
C3_Witness ==
  /\ isSheetOpen
  /\ errors.departure = "Departure is required"
  /\ formValues.departure = ""
  /\ formValues.arrival # ""
  /\ onSubmitCalls = 1
  /\ Len(requests) = 1

Settled(i) == requests[i].mutation \in {"success", "error"}

SuccessCalls ==
  Cardinality({i \in 1..Len(requests) : requests[i].successCalls = 1})

\* C4 as stated: a settled submission whose response had a success status
\* called the success callback once.
C4_SuccessStatusCallsBack ==
  \A i \in 1..Len(requests) :
    (Settled(i) /\ ResponseOk(requests[i].status))
      => requests[i].successCalls = 1

\* C4: every call of onSubmit issued one POST, and a settled submission
\* called the success callback once when its response had a success status
\* and a body that parsed, and not at all otherwise; a pending one has not
\* called it.  Every call showed one confirmation.
C4_OnePostOneCallback ==
  /\ Len(requests) = onSubmitCalls
  /\ \A i \in 1..Len(requests) :
       /\ requests[i].method = "POST"
       /\ requests[i].successCalls =
            (IF /\ Settled(i)
                /\ ResponseOk(requests[i].status)
                /\ requests[i].json = "parsed"
             THEN 1 ELSE 0)
       /\ requests[i].mutation = "success" <=> requests[i].successCalls = 1
  /\ Len(toasts) = SuccessCalls
  /\ invalidations = SuccessCalls

\* C4's case: two submissions, the first answered 201 with a body that
\* parsed, its callback called once.
C4_Witness ==
  /\ Len(requests) = 2
  /\ onSubmitCalls = 2
  /\ requests[1].status = 201
  /\ requests[1].json = "parsed"
  /\ requests[1].successCalls = 1
  /\ Len(toasts) = 1

FormKept ==
  UNCHANGED <<formValues, selectedVessel, selectedUnitTypes, portOfLoading,
              portOfDischarge, inputValue, issues, errors, isSheetOpen>>

\* C5: a submission answered with a status outside 200..299 never calls the
\* success callback, and the step that delivers the answer leaves every form
\* value, the vessel, the unit types, the ports and the open sheet as they
\* were, with no confirmation shown.
C5_FailureKeepsDraft ==
  [][/\ \A i \in 1..Len(requests') :
          (requests'[i].st = "responded" /\ ~ResponseOk(requests'[i].status))
            => /\ requests'[i].successCalls = 0
               /\ requests'[i].mutation \in {"pending", "error"}
     /\ \A i \in 1..Len(requests) :
          (/\ Len(requests') = Len(requests)
           /\ requests[i].mutation = "pending"
           /\ requests'[i].mutation # "pending"
           /\ ~ResponseOk(requests[i].status))
            => /\ requests'[i].mutation = "error"
               /\ FormKept
               /\ UNCHANGED <<toasts, invalidations>>
    ]_vars

\* C5's case: a 500 was delivered to an open form that holds its draft.
C5_Witness ==
  /\ Len(requests) = 1
  /\ requests[1].status = 500
  /\ requests[1].mutation = "error"
  /\ requests[1].successCalls = 0
  /\ isSheetOpen
  /\ formValues.departure # ""
  /\ formValues.arrival # ""
  /\ formValues.unitTypes # <<>>
  /\ formValues.vessel # ""
  /\ toasts = <<>>

\* C6 as stated: every failed submission was logged and a notification
\* other than the confirmation was shown.
C6_FailureNotified ==
  \A i \in 1..Len(requests) :
    requests[i].mutation = "error"
      => /\ requests[i].logged
         /\ \E k \in 1..Len(toasts) : toasts[k] # "Voyage created successfully!"

\* The pairing of the two ports as a table.
PairOf(p) ==
  CASE p = "Copenhagen" -> "Oslo"
    [] p = "Oslo" -> "Copenhagen"
    [] OTHER -> ""

\* C8: the port of discharge, in the state and in the form values, is "Oslo"
\* when the port of loading is "Copenhagen", "Copenhagen" when it is "Oslo"
\* and unset otherwise, the form values hold the same port of loading as the
\* state, and on a form that stays mounted it changes only in a step that
\* changes the port of loading and nothing else of the form.
C8_DischargeDerived ==
  /\ portOfDischarge = PairOf(portOfLoading)
  /\ formValues.portOfDischarge = portOfDischarge
  /\ formValues.portOfLoading = portOfLoading
  /\ [][/\ portOfDischarge' = PairOf(portOfLoading')
        /\ formValues'.portOfDischarge = portOfDischarge'
        /\ formValues'.portOfLoading = portOfLoading'
        /\ (isSheetOpen /\ isSheetOpen' /\ portOfDischarge' # portOfDischarge)
             => /\ portOfLoading' # portOfLoading
                /\ formValues' = [formValues EXCEPT
                                    !.portOfLoading = portOfLoading',
                                    !.portOfDischarge = portOfDischarge']
                /\ UNCHANGED <<selectedVessel, selectedUnitTypes, inputValue,
                               issues, errors, pageVars, queryVars, netVars>>
       ]_vars

\* C8's case: "Oslo" was chosen on a form whose other fields are filled.
C8_Witness ==
  /\ isSheetOpen
  /\ portOfLoading = "Oslo"
  /\ portOfDischarge = "Copenhagen"
  /\ formValues.portOfDischarge = "Copenhagen"
  /\ formValues.departure # ""
  /\ formValues.vessel # ""
  /\ formValues.unitTypes # <<>>

ResponseOf(req) ==
  [st |-> req.st, status |-> req.status, allow |-> req.allow,
   error |-> req.error, text |-> req.text, created |-> req.created]

Pending == {i \in 1..Len(requests) : requests[i].mutation = "pending"}

\* C12: while a submission is pending, a submit of a form that passes
\* validation is possible and issues one more POST with the same draft;
\* nothing in the form refuses it.
C12_SecondSubmitAccepted ==
  (/\ isSheetOpen
   /\ Pending # {}
   /\ VoyageSchema(formValues) = <<>>
   /\ onSubmitCalls < MaxSubmits)
    => ENABLED (/\ Submit
                /\ Len(requests') = Len(requests) + 1
                /\ requests'[Len(requests')].mutation = "pending"
                /\ requests'[Len(requests')].body =
                     SubmittedData(formValues, selectedVessel, selectedUnitTypes)
                /\ \A i \in Pending : requests'[i] = requests[i])

\* C12's case: one draft submitted twice, the second POST answered before
\* the first, two rows that differ in their id alone, two confirmations.
C12_Witness ==
  /\ Len(requests) = 2
  /\ requests[1].body = requests[2].body
  /\ requests[2].created # <<>> /\ requests[2].created[1].id = 1
  /\ requests[1].created # <<>> /\ requests[1].created[1].id = 2
  /\ Len(voyages) = 2
  /\ [voyages[1] EXCEPT !.id = 2] = voyages[2]
  /\ requests[1].successCalls = 1
  /\ requests[2].successCalls = 1
  /\ Len(toasts) = 2

Digit(c) ==
  CASE c = "0" -> 0 [] c = "1" -> 1 [] c = "2" -> 2 [] c = "3" -> 3
    [] c = "4" -> 4 [] c = "5" -> 5 [] c = "6" -> 6 [] c = "7" -> 7
    [] c = "8" -> 8 [] c = "9" -> 9

TwoDigits(s, at) ==
  Digit(SubSeq(s, at, at)) * 10 + Digit(SubSeq(s, at + 1, at + 1))

\* The instant a timestamp "2025-01-ddThh:00:00.000Z" names, in hours since
\* 2025-01-01T00:00Z.
InstantOf(iso) == (TwoDigits(iso, 9) - 1) * 24 + TwoDigits(iso, 12)

\* C13: every row stored from a submission of the form names a scheduled
\* arrival strictly later than its scheduled departure, both are the
\* instants the draft's two texts name, and the draft is one the schema
\* accepts.
C13_StoredArrivalAfterDeparture ==
  \A k \in 1..Len(voyages) :
    /\ Len(voyages[k].scheduledDeparture) = 24
    /\ Len(voyages[k].scheduledArrival) = 24
    /\ InstantOf(voyages[k].scheduledArrival)
         > InstantOf(voyages[k].scheduledDeparture)
    /\ InstantOf(voyages[k].scheduledDeparture) = NewDate(formValues.departure).time
    /\ InstantOf(voyages[k].scheduledArrival) = NewDate(formValues.arrival).time
    /\ VoyageSchema(formValues) = <<>>

\* C13's case: a draft whose arrival is a day after its departure was
\* stored with both timestamps shifted to UTC.
C13_Witness ==
  /\ lastEvent.op = "submit"
  /\ formValues.departure = "2025-01-01T10:00:00"
  /\ formValues.arrival = "2025-01-02T10:00"
  /\ Len(voyages) = 1
  /\ voyages[1].scheduledDeparture = "2025-01-01T09:00:00.000Z"
  /\ voyages[1].scheduledArrival = "2025-01-02T09:00:00.000Z"

RowOf(body, id) ==
  [id |-> id,
   scheduledDeparture |-> body.departure,
   scheduledArrival |-> body.arrival,
   portOfLoading |-> body.portOfLoading,
   portOfDischarge |-> body.portOfDischarge,
   vesselId |-> body.vessel,
   unitTypes |-> body.unitTypes]

\* C14: whatever its body holds, a POST waiting at the endpoint can be
\* answered 201, and a POST answered 201 stored a row carrying the body's
\* six values as they were sent.
C14_NoServerValidation ==
  \A i \in 1..Len(requests) :
    /\ (requests[i].st = "sent" /\ requests[i].method = "POST")
         => ENABLED (/\ Serve
                     /\ requests'[i].status = 201
                     /\ Len(voyages') = Len(voyages) + 1
                     /\ voyages'[Len(voyages')] =
                          RowOf(requests[i].body, Len(voyages) + 1))
    /\ (requests[i].st = "responded" /\ requests[i].status = 201)
         => /\ requests[i].created =
                 <<RowOf(requests[i].body, requests[i].created[1].id)>>
            /\ \E k \in 1..Len(voyages) : voyages[k] = requests[i].created[1]

\* C14's case: a row whose arrival is a day before its departure and a row
\* without ports, vessel and unit types were stored and answered 201.
C14_Witness ==
  /\ Len(voyages) = 2
  /\ voyages[1].scheduledDeparture = "2025-01-02T09:00:00.000Z"
  /\ voyages[1].scheduledArrival = "2025-01-01T09:00:00.000Z"
  /\ voyages[1].vesselId = "v1"
  /\ voyages[2].portOfLoading = ""
  /\ voyages[2].vesselId = ""
  /\ voyages[2].unitTypes = <<>>
  /\ requests[1].status = 201
  /\ requests[2].status = 201

\* A timestamp of the form toISOString gives.
IsIsoText(t) ==
  /\ Len(t) = 24
  /\ SubSeq(t, 1, 8) = "2025-01-"
  /\ SubSeq(t, 11, 11) = "T"
  /\ SubSeq(t, 14, 24) = ":00:00.000Z"

\* C15: a step that sends a request starts from form values the schema
\* accepts, and the body it sends holds, for departure and arrival, the UTC
\* timestamps of the instants the two texts name and not the texts, for
\* vessel and unitTypes the selection's, and the two ports of the form
\* values; the request leaves in the same step, unanswered.
C15_ValidateNormalizeSend ==
  [][Len(requests') > Len(requests)
       => LET sent == requests'[Len(requests')] IN
          /\ Len(requests') = Len(requests) + 1
          /\ VoyageSchema(formValues) = <<>>
          /\ issues' = <<>>
          /\ onSubmitCalls' = onSubmitCalls + 1
          /\ sent.st = "sent"
          /\ sent.method = "POST"
          /\ IsIsoText(sent.body.departure)
          /\ IsIsoText(sent.body.arrival)
          /\ sent.body.departure # formValues.departure
          /\ sent.body.arrival # formValues.arrival
          /\ InstantOf(sent.body.departure) = NewDate(formValues.departure).time
          /\ InstantOf(sent.body.arrival) = NewDate(formValues.arrival).time
          /\ sent.body.vessel = selectedVessel
          /\ sent.body.unitTypes =
               [k \in 1..Len(selectedUnitTypes) |-> selectedUnitTypes[k].value]
          /\ sent.body.portOfLoading = formValues.portOfLoading
          /\ sent.body.portOfDischarge = formValues.portOfDischarge
          /\ formValues' = formValues
    ]_vars

\* C15's case: the draft's texts are local, the body's timestamps UTC.
C15_Witness ==
  /\ lastEvent.op = "submit"
  /\ formValues.departure = "2025-01-01T09:00"
  /\ formValues.arrival = "2025-01-01T10:00:00"
  /\ Len(requests) = 1
  /\ requests[1].st = "sent"
  /\ requests[1].body.departure = "2025-01-01T08:00:00.000Z"
  /\ requests[1].body.arrival = "2025-01-01T09:00:00.000Z"
  /\ requests[1].body.unitTypes = <<"u2", "u1">>

\* C16: the body onSubmit sends holds the selected vessel as vessel and the
\* values of the selected unit types, in their order, as unitTypes, both as
\* they are when onSubmit runs and whatever the data held for the two; a
\* body once sent does not follow the selection.
C16_BodyFromSelection ==
  [][/\ Len(requests') > Len(requests)
          => LET sent == requests'[Len(requests')] IN
             /\ sent.body.vessel = selectedVessel
             /\ sent.body.unitTypes =
                  [k \in 1..Len(selectedUnitTypes) |-> selectedUnitTypes[k].value]
             /\ sent.body.portOfLoading = formValues.portOfLoading
     /\ \A i \in 1..Len(requests) : requests'[i].body = requests[i].body
    ]_vars

\* C16's case: the data held vessel v2 and one unit type, the selection
\* vessel v1 and two others, and the body holds the selection's.
C16_Witness ==
  /\ lastEvent.op = "onSubmit"
  /\ formValues.vessel = "v2"
  /\ formValues.unitTypes = <<"u1">>
  /\ selectedVessel = "v1"
  /\ Len(requests) = 1
  /\ requests[1].body.vessel = "v1"
  /\ requests[1].body.unitTypes = <<"u3", "u2">>

SelectionState ==
  <<selectedVessel, selectedUnitTypes, portOfLoading, portOfDischarge>>

\* The four form values the selection states stand for.
Mirror ==
  <<selectedVessel,
    [k \in 1..Len(selectedUnitTypes) |-> selectedUnitTypes[k].value],
    portOfLoading, portOfDischarge>>

\* C17: in every state a validation can start from, the form values'
\* vessel, unitTypes, portOfLoading and portOfDischarge are those of the
\* selection states; a step that changes a selection state on a mounted
\* form leaves departure and arrival alone, and a step that changes
\* departure or arrival on a mounted form leaves the selection states alone.
C17_OneWayMirror ==
  [][/\ <<formValues'.vessel, formValues'.unitTypes, formValues'.portOfLoading,
          formValues'.portOfDischarge>> = Mirror'
     /\ (isSheetOpen /\ isSheetOpen' /\ SelectionState' # SelectionState)
          => /\ formValues'.departure = formValues.departure
             /\ formValues'.arrival = formValues.arrival
     /\ (/\ isSheetOpen /\ isSheetOpen'
         /\ \/ formValues'.departure # formValues.departure
            \/ formValues'.arrival # formValues.arrival)
          => SelectionState' = SelectionState
    ]_vars

\* C17's case: after a submission with one unit type and Copenhagen, the
\* unit type was removed and Oslo chosen, and the form values followed.
C17_Witness ==
  /\ isSheetOpen
  /\ Len(requests) = 1
  /\ requests[1].body.unitTypes = <<"u1">>
  /\ requests[1].body.portOfLoading = "Copenhagen"
  /\ selectedUnitTypes = <<>>
  /\ formValues.unitTypes = <<>>
  /\ portOfLoading = "Oslo"
  /\ formValues.portOfLoading = "Oslo"
  /\ formValues.portOfDischarge = "Copenhagen"
  /\ formValues.vessel = "v1"

C19_KeyDownPopsLast ==
  lastEvent.op = "key" =>
    LET prev == lastEvent.prev
        now == selectedUnitTypes IN
    /\ IF lastEvent.arg \in {"Delete", "Backspace"} /\ inputValue = ""
       THEN IF prev = <<>>
            THEN now = <<>>
            ELSE /\ Len(now) = Len(prev) - 1
                 /\ \A k \in 1..Len(now) : now[k] = prev[k]
       ELSE now = prev
    /\ formValues.unitTypes = [k \in 1..Len(now) |-> now[k].value]

\* C19's case: Backspace on three selected unit types and an empty filter
\* input removed the third.
C19_Witness ==
  /\ lastEvent.op = "key"
  /\ lastEvent.arg = "Backspace"
  /\ inputValue = ""
  /\ Len(lastEvent.prev) = 3
  /\ lastEvent.prev[3].value = "u2"
  /\ Len(selectedUnitTypes) = 2
  /\ selectedUnitTypes[1] = lastEvent.prev[1]
  /\ selectedUnitTypes[2] = lastEvent.prev[2]

\* C20: a submit of a form whose port of loading is neither "Copenhagen"
\* nor "Oslo" finds the port of discharge unset, reports "Port of discharge
\* is required" for it, does not call onSubmit and sends nothing.
C20_UnknownPortRejected ==
  [][(lastEvent'.op = "submit" /\ portOfLoading' \notin {"Copenhagen", "Oslo"})
       => /\ portOfDischarge' = ""
          /\ formValues'.portOfDischarge = ""
          /\ \E k \in 1..Len(issues') :
               /\ issues'[k].path = "portOfDischarge"
               /\ issues'[k].message = "Port of discharge is required"
          /\ errors'.portOfDischarge = "Port of discharge is required"
          /\ onSubmitCalls' = onSubmitCalls
          /\ requests' = requests
    ]_vars

\* C20's case: a draft that was sent once is refused after "Aarhus" was
\* chosen, for its port of discharge alone.
C20_Witness ==
  /\ lastEvent.op = "submit"
  /\ portOfLoading = "Aarhus"
  /\ portOfDischarge = ""
  /\ issues = <<Issue("portOfDischarge", "Port of discharge is required")>>
  /\ errors.portOfLoading = NoMessage
  /\ Len(requests) = 1
  /\ onSubmitCalls = 1

\* Request i was stored and answered 201, and reading the answer's body
\* failed.
StoredButFailed(i) ==
  /\ requests[i].status = 201
  /\ requests[i].mutation = "error"
  /\ requests[i].json = "failed"

\* C21: an answer 201 whose body does not parse can reach the form, and the
\* step that delivers it ends the mutation in error without a call of the
\* success callback, leaves the stored row where it is, sends nothing and
\* leaves the form as it was; from then on a submit of the same valid form
\* is possible and sends the same body again.
C21_UnparsableSuccessFails ==
  /\ [](\A i \in 1..Len(requests) :
          /\ (/\ requests[i].st = "responded"
              /\ requests[i].status = 201
              /\ requests[i].mutation = "pending")
               => ENABLED (/\ Receive
                           /\ requests'[i].mutation = "error"
                           /\ requests'[i].json = "failed")
          /\ (/\ StoredButFailed(i)
              /\ isSheetOpen
              /\ VoyageSchema(formValues) = <<>>
              /\ onSubmitCalls < MaxSubmits)
               => ENABLED (/\ Submit
                           /\ Len(requests') = Len(requests) + 1
                           /\ requests'[Len(requests')].body =
                                SubmittedData(formValues, selectedVessel,
                                              selectedUnitTypes)))
  /\ [][\A i \in 1..Len(requests) :
          (/\ requests[i].mutation = "pending"
           /\ Len(requests') = Len(requests)
           /\ requests'[i].json = "failed")
            => /\ requests[i].status = 201
               /\ requests'[i].mutation = "error"
               /\ requests'[i].successCalls = 0
               /\ requests'[i].logged
               /\ voyages' = voyages
               /\ \E k \in 1..Len(voyages') :
                    voyages'[k] = requests'[i].created[1]
               /\ FormKept
               /\ UNCHANGED <<toasts, invalidations, onSubmitCalls>>
      ]_vars

\* C21's case: the first submission was stored and failed on its body, the
\* same draft was submitted again and stored a second row.
C21_Witness ==
  /\ Len(requests) = 2
  /\ StoredButFailed(1)
  /\ requests[1].successCalls = 0
  /\ requests[2].body = requests[1].body
  /\ requests[2].status = 201
  /\ Len(voyages) = 2
  /\ [voyages[1] EXCEPT !.id = 2] = voyages[2]
  /\ toasts = <<>>

\* What of a request its sender fixed.
SentPart(req) == [method |-> req.method, body |-> req.body]

\* C22: a request is sent only in a step that calls onSubmit, one request
\* per call, so the step that ends a mutation in error sends none; and a
\* request once sent stays as it was sent, is never taken back, and stays
\* unanswered until the endpoint answers it, also when the form unmounts.
C22_NoRetryNoCancel ==
  [][/\ Len(requests') - Len(requests) = onSubmitCalls' - onSubmitCalls
     /\ Len(requests') >= Len(requests)
     /\ Len(requests') > Len(requests)
          => /\ Len(requests') = Len(requests) + 1
             /\ isSheetOpen
             /\ VoyageSchema(formValues) = <<>>
             /\ \A i \in 1..Len(requests) : requests'[i] = requests[i]
     /\ \A i \in 1..Len(requests) :
          /\ SentPart(requests'[i]) = SentPart(requests[i])
          /\ requests[i].st = "responded" => requests'[i].st = "responded"
          /\ (requests[i].mutation = "pending" /\ requests'[i].mutation = "error")
               => /\ Len(requests') = Len(requests)
                  /\ \A j \in 1..Len(requests) :
                       j # i => requests'[j] = requests[j]
          /\ (requests[i].st = "sent" /\ isSheetOpen /\ ~isSheetOpen')
               => requests'[i] = requests[i]
    ]_vars

\* C22's case: a submission failed on a 500 while another was in flight;
\* the sheet was closed since, the other is still unanswered and there are
\* the two requests of the two submits and no more.
C22_Witness ==
  /\ onSubmitCalls = 2
  /\ Len(requests) = 2
  /\ requests[1].status = 500
  /\ requests[1].mutation = "error"
  /\ requests[2].st = "sent"
  /\ requests[2].mutation = "pending"
  /\ ~isSheetOpen

CreateSucceeds ==
  \E i \in 1..Len(requests) :
    /\ Len(requests') = Len(requests)
    /\ requests[i].mutation = "pending"
    /\ requests'[i].mutation = "success"

\* C23 as stated: the voyages query is invalidated only in a step in which
\* a create mutation succeeds.
C23_OnlyCreateInvalidates ==
  [][invalidations' # invalidations => CreateSucceeds]_vars

\* C23: the voyages query is invalidated, once, only in a step in which a
\* create mutation succeeds or in a step in which a delete succeeded, which
\* touches no create request.
C23_CreateOrDeleteInvalidates ==
  [][invalidations' # invalidations
       => /\ invalidations' = invalidations + 1
          /\ \/ CreateSucceeds /\ voyages' = voyages
             \/ /\ requests' = requests
                /\ Len(voyages') = Len(voyages) - 1
                /\ toasts' = toasts
                /\ isSheetOpen' = isSheetOpen
    ]_vars

\* C23's case: one voyage was created and deleted again, each with its
\* invalidation.
C23_Witness ==
  /\ invalidations = 2
  /\ Len(requests) = 1
  /\ requests[1].mutation = "success"
  /\ voyages = <<>>
  /\ toasts = <<"Voyage created successfully!">>

CreateFails ==
  \E i \in 1..Len(requests) :
    /\ Len(requests') = Len(requests)
    /\ requests[i].mutation = "pending"
    /\ requests'[i].mutation = "error"

SubmitRejected == issues' # <<>> /\ issues' # issues

\* C24: the step in which a create mutation succeeds leaves the sheet
\* closed and the form unmounted, shows the confirmation and invalidates
\* the voyages query once; the step in which one fails and the step of a
\* submit that validation rejects change none of the three, and nothing
\* else shows a toast or invalidates.
C24_SuccessEffects ==
  [][/\ CreateSucceeds
          => /\ ~isSheetOpen'
             /\ formValues' = Draft("", "", "", "", "", <<>>)
             /\ toasts' = Append(toasts, "Voyage created successfully!")
             /\ invalidations' = invalidations + 1
     /\ (CreateFails \/ SubmitRejected)
          => /\ isSheetOpen' = isSheetOpen
             /\ toasts' = toasts
             /\ invalidations' = invalidations
     /\ (toasts' # toasts \/ invalidations' # invalidations) => CreateSucceeds
    ]_vars

\* C24's case: after a rejected submit and a submission that failed on a
\* 500, a second submission succeeded: the sheet is closed, one
\* confirmation is shown and the query was invalidated once.
C24_Witness ==
  /\ Len(requests) = 2
  /\ requests[1].status = 500
  /\ requests[1].mutation = "error"
  /\ requests[2].mutation = "success"
  /\ ~isSheetOpen
  /\ toasts = <<"Voyage created successfully!">>
  /\ invalidations = 1

\* C25: while the form is mounted and a submission is pending, a change of
\* the departure, of the arrival, of the port of loading and of the unit
\* types and a choice of the vessel are each possible as a step, and such
\* a step leaves every request as it is.
C25_EditsWhilePending ==
  /\ []((isSheetOpen /\ Pending # {})
          => /\ ENABLED (TypeDeparture /\ formValues'.departure # formValues.departure)
             /\ ENABLED (TypeArrival /\ formValues'.arrival # formValues.arrival)
             /\ ENABLED (ChoosePort /\ portOfLoading' # portOfLoading)
             /\ ENABLED (ChooseVessel /\ selectedVessel' = "v1")
             /\ ENABLED ((PickUnitType \/ ClickBadge \/ PressKey)
                           /\ selectedUnitTypes' # selectedUnitTypes))
  /\ [][(/\ Pending # {}
         /\ isSheetOpen /\ isSheetOpen'
         /\ \/ formValues' # formValues
            \/ SelectionState' # SelectionState)
          => /\ requests' = requests
             /\ onSubmitCalls' = onSubmitCalls
             /\ voyages' = voyages
      ]_vars

\* C25's case: with a request unanswered, the port, the dates and the unit
\* types of the form are no longer those that were sent.
C25_Witness ==
  /\ isSheetOpen
  /\ Len(requests) = 1
  /\ requests[1].st = "sent"
  /\ requests[1].mutation = "pending"
  /\ requests[1].body.portOfLoading = "Copenhagen"
  /\ portOfLoading = "Oslo"
  /\ formValues.departure = ""
  /\ selectedUnitTypes = <<>>

C27_DropdownSelectsFirst ==
  [][/\ (~isSheetOpen /\ isSheetOpen')
          => /\ portOfLoading' = "Copenhagen"
             /\ portOfDischarge' = "Oslo"
             /\ selectedVessel' = (IF vessels = <<>> THEN "" ELSE vessels[1].value)
     /\ isSheetOpen'
          => /\ <<portOfLoading', portOfDischarge'>>
                  \in {<<"Copenhagen", "Oslo">>, <<"Oslo", "Copenhagen">>}
             /\ vessels' # <<>> => selectedVessel' = vessels'[1].value
     /\ errors'.portOfLoading = ""
     /\ errors'.portOfDischarge = ""
     /\ \A k \in 1..Len(issues') :
          issues'[k].path \notin {"portOfLoading", "portOfDischarge"}
    ]_vars

\* C27's case: a submit before the vessels were loaded reported the vessel
\* and no port; the vessels loaded since and the first is selected.
C27_Witness ==
  /\ isSheetOpen
  /\ errors.vessel = "Vessel is required"
  /\ errors.portOfLoading = ""
  /\ errors.portOfDischarge = ""
  /\ vessels # <<>>
  /\ selectedVessel = "v1"
  /\ formValues.vessel = "v1"
  /\ portOfLoading = "Copenhagen"
  /\ portOfDischarge = "Oslo"

\* C28: a step that calls onSubmit starts from form values whose departure
\* and arrival both read as dates, and sends its request: the conversion
\* to a timestamp does not throw.  A submit that left no issue had two such
\* texts.
C28_ValidatedDatesParse ==
  [][/\ onSubmitCalls' # onSubmitCalls
          => /\ NewDate(formValues.departure).valid
             /\ NewDate(formValues.arrival).valid
             /\ Len(requests') = Len(requests) + 1
             /\ IsIsoText(requests'[Len(requests')].body.departure)
             /\ IsIsoText(requests'[Len(requests')].body.arrival)
     /\ (lastEvent'.op = "submit" /\ issues' = <<>>)
          => /\ NewDate(formValues'.departure).valid
             /\ NewDate(formValues'.arrival).valid
             /\ onSubmitCalls' = Len(requests')
     /\ (\/ ~NewDate(formValues.departure).valid
         \/ ~NewDate(formValues.arrival).valid)
          => onSubmitCalls' = onSubmitCalls
    ]_vars

\* C28's case: two texts an hour apart passed and were sent; no draft
\* holding a text that is no date got this far.
C28_Witness ==
  /\ lastEvent.op = "submit"
  /\ issues = <<>>
  /\ formValues.departure = "2025-01-01T09:00"
  /\ formValues.arrival = "2025-01-01T10:00"
  /\ onSubmitCalls = 2
  /\ Len(requests) = 2

\* Which of the three labels hold which of the filter texts, letter case
\* aside.
LabelHolds(label, text) ==
  CASE text = "" -> TRUE
    [] text = "tr" -> label = "Trailer"
    [] text = "RE" -> label = "Reefer"

Offered == FilteredUnitTypes(unitTypesData, selectedUnitTypes, inputValue)

\* C29: in every state the options the multi-select offers are the loaded
\* unit types that are not selected and whose label holds the filter text,
\* letter case aside, each once and in the order they were loaded.
C29_OfferedOptions ==
  /\ \A k \in 1..Len(unitTypesData) :
       (\E j \in 1..Len(Offered) : Offered[j] = unitTypesData[k])
         <=> /\ \A i \in 1..Len(selectedUnitTypes) :
                  selectedUnitTypes[i].value # unitTypesData[k].value
             /\ LabelHolds(unitTypesData[k].label, inputValue)
  /\ \A j \in 1..Len(Offered) :
       \E k \in 1..Len(unitTypesData) : Offered[j] = unitTypesData[k]
  /\ \A i, j \in 1..Len(Offered) :
       i < j => \E k, l \in 1..Len(unitTypesData) :
                  k < l /\ Offered[i] = unitTypesData[k]
                        /\ Offered[j] = unitTypesData[l]

\* C29's case: with "tr" typed and the container selected, the trailer is
\* the one option.
C29_Witness ==
  /\ lastEvent.op = "input"
  /\ lastEvent.arg = "tr"
  /\ inputValue = "tr"
  /\ Len(selectedUnitTypes) = 1
  /\ selectedUnitTypes[1].value = "u2"
  /\ Len(Offered) = 1
  /\ Offered[1].label = "Trailer"

====
